---- MODULE Spec2Model ----
(***************************************************************************)
(* Order brokering API: the pricing rule engine (models/PricingRule.js),   *)
(* the pricing rule administration (pricing controller) and the order      *)
(* lifecycle (controllers/orderController.js with the Order schema), and   *)
(* the token authentication of requests (generateToken, protect).          *)
(*                                                                         *)
(* Money is counted in cents.  A multiplier is a fraction <<n, d>>, and the *)
(* running price of calculatePrice is a fraction too, so the product and   *)
(* the final rounding are exact (binary floating point error is not        *)
(* modelled).  Times are milliseconds, as in a JavaScript Date.            *)
(***************************************************************************)
EXTENDS Integers, Sequences, FiniteSets, TLC

VARIABLES
    rules,      \* the PricingRule collection, in natural order
    orders,     \* the Order collection: orders[id] is the persisted document
    clock,      \* the wall clock, in milliseconds
    req,        \* the createOrder request in flight, with its place in the retry loop
    inflight,   \* the requests served concurrently: what each has loaded so far
    last,       \* the request answered last: operation, order and status code
    users       \* the User collection, in natural order: users[id] is the document

vars == <<rules, orders, clock, req, inflight, last, users>>

\* JavaScript's undefined (a field the request body does not carry) and null,
\* for a string-valued field.  A number-valued field that may be missing is a
\* sequence: <<>> when it is undefined or null, <<x>> when it holds x.
Undefined == "undefined"
Null == "null"
Absent == <<>>

(***************************************************************************)
(* Bounds of the model.                                                    *)
(***************************************************************************)
MaxRules == 2
MaxOrders == 2
MaxTracked == 1
MaxHistory == 3
MaxClock == 1
MaxRand == 2

(***************************************************************************)
(* Fractions.                                                              *)
(***************************************************************************)
RECURSIVE Gcd(_, _)
Gcd(a, b) == IF b = 0 THEN a ELSE Gcd(b, a % b)

Norm(f) ==
    LET g == Gcd(IF f[1] < 0 THEN -f[1] ELSE f[1], f[2])
    IN  IF g = 0 THEN f ELSE <<f[1] \div g, f[2] \div g>>

Times(f, g) == Norm(<<f[1] * g[1], f[2] * g[2]>>)

\* A rounding that truncates, for comparison with Math.round.
MathTrunc(f) == f[1] \div f[2]

\* Math.round(x): the integer nearest to x, a half rounded towards +Infinity.
MathRound(f) == (2 * f[1] + f[2]) \div (2 * f[2])

(***************************************************************************)
(* The rule store.  rules is the collection in its natural order.          *)
(***************************************************************************)
NoRule == [name |-> Null]

DefaultBasePricePerPage == 1500

\* The default catalog of seedPricingRules.
DefaultRules ==
<<
    [name |-> "high_school_level", category |-> "education_level", appliesTo |-> "high_school", multiplier |-> <<1, 1>>,
     basePrice |-> 0, isActive |-> TRUE, priority |-> 10],
    [name |-> "undergraduate_level", category |-> "education_level", appliesTo |-> "undergraduate", multiplier |-> <<3, 2>>,
     basePrice |-> 0, isActive |-> TRUE, priority |-> 10],
    [name |-> "graduate_level", category |-> "education_level", appliesTo |-> "graduate", multiplier |-> <<2, 1>>,
     basePrice |-> 0, isActive |-> TRUE, priority |-> 10],
    [name |-> "phd_level", category |-> "education_level", appliesTo |-> "phd", multiplier |-> <<3, 1>>,
     basePrice |-> 0, isActive |-> TRUE, priority |-> 10],
    [name |-> "essay_task", category |-> "task_type", appliesTo |-> "essay", multiplier |-> <<1, 1>>,
     basePrice |-> 0, isActive |-> TRUE, priority |-> 10],
    [name |-> "research_paper_task", category |-> "task_type", appliesTo |-> "research_paper", multiplier |-> <<3, 2>>,
     basePrice |-> 0, isActive |-> TRUE, priority |-> 10],
    [name |-> "thesis_task", category |-> "task_type", appliesTo |-> "thesis", multiplier |-> <<3, 1>>,
     basePrice |-> 0, isActive |-> TRUE, priority |-> 10],
    [name |-> "dissertation_task", category |-> "task_type", appliesTo |-> "dissertation", multiplier |-> <<4, 1>>,
     basePrice |-> 0, isActive |-> TRUE, priority |-> 10],
    [name |-> "editing_task", category |-> "task_type", appliesTo |-> "editing", multiplier |-> <<3, 5>>,
     basePrice |-> 0, isActive |-> TRUE, priority |-> 10],
    [name |-> "proofreading_task", category |-> "task_type", appliesTo |-> "proofreading", multiplier |-> <<2, 5>>,
     basePrice |-> 0, isActive |-> TRUE, priority |-> 10],
    [name |-> "standard_urgency", category |-> "urgency", appliesTo |-> "standard", multiplier |-> <<1, 1>>,
     basePrice |-> 0, isActive |-> TRUE, priority |-> 5],
    [name |-> "rush_urgency", category |-> "urgency", appliesTo |-> "rush", multiplier |-> <<5, 4>>,
     basePrice |-> 0, isActive |-> TRUE, priority |-> 5],
    [name |-> "urgent_urgency", category |-> "urgency", appliesTo |-> "urgent", multiplier |-> <<3, 2>>,
     basePrice |-> 0, isActive |-> TRUE, priority |-> 5],
    [name |-> "basic_complexity", category |-> "complexity", appliesTo |-> "basic", multiplier |-> <<4, 5>>,
     basePrice |-> 0, isActive |-> TRUE, priority |-> 5],
    [name |-> "standard_complexity", category |-> "complexity", appliesTo |-> "standard", multiplier |-> <<1, 1>>,
     basePrice |-> 0, isActive |-> TRUE, priority |-> 5],
    [name |-> "advanced_complexity", category |-> "complexity", appliesTo |-> "advanced", multiplier |-> <<13, 10>>,
     basePrice |-> 0, isActive |-> TRUE, priority |-> 5],
    [name |-> "expert_complexity", category |-> "complexity", appliesTo |-> "expert", multiplier |-> <<3, 2>>,
     basePrice |-> 0, isActive |-> TRUE, priority |-> 5],
    [name |-> "no_citation", category |-> "citation_style", appliesTo |-> "none", multiplier |-> <<1, 1>>,
     basePrice |-> 0, isActive |-> TRUE, priority |-> 3],
    [name |-> "apa_citation", category |-> "citation_style", appliesTo |-> "apa", multiplier |-> <<11, 10>>,
     basePrice |-> 0, isActive |-> TRUE, priority |-> 3],
    [name |-> "mla_citation", category |-> "citation_style", appliesTo |-> "mla", multiplier |-> <<11, 10>>,
     basePrice |-> 0, isActive |-> TRUE, priority |-> 3],
    [name |-> "chicago_citation", category |-> "citation_style", appliesTo |-> "chicago", multiplier |-> <<23, 20>>,
     basePrice |-> 0, isActive |-> TRUE, priority |-> 3],
    [name |-> "harvard_citation", category |-> "citation_style", appliesTo |-> "harvard", multiplier |-> <<23, 20>>,
     basePrice |-> 0, isActive |-> TRUE, priority |-> 3],
    [name |-> "ieee_citation", category |-> "citation_style", appliesTo |-> "ieee", multiplier |-> <<6, 5>>,
     basePrice |-> 0, isActive |-> TRUE, priority |-> 3]
>>

\* Model.findOne(filter): the first document, in natural order, among those
\* that match the filter (hits: their positions).
FindOne(rs, hits) ==
    IF hits = {} THEN NoRule
    ELSE rs[CHOOSE i \in hits : \A j \in hits : i <= j]

FindActiveRule(rs, category, appliesTo) ==
    FindOne(rs, {i \in 1..Len(rs) : /\ rs[i].category = category
                                    /\ rs[i].appliesTo = appliesTo
                                    /\ rs[i].isActive})

FindBaseRule(rs) ==
    FindOne(rs, {i \in 1..Len(rs) : rs[i].name = "base_price_per_page" /\ rs[i].isActive})

\* A step in which a missing rule zeroes the price, for comparison.
ApplyRuleNoFallback(total, rule) ==
    IF rule = NoRule THEN <<0, 1>> ELSE Times(total, rule.multiplier)

\* `if (rule) totalPrice *= rule.multiplier`: no rule leaves the price as it is.
ApplyRule(total, rule) ==
    IF rule = NoRule THEN total ELSE Times(total, rule.multiplier)

\* `x || dflt` for a string x, and for a number that may be missing.
StrOrElse(x, dflt) == IF x = Undefined \/ x = "" THEN dflt ELSE x

NumOrElse(x, dflt) == IF x = Absent \/ x = <<0>> THEN dflt ELSE x[1]

BasePricePerPage(rs) ==
    LET baseRule == FindBaseRule(rs)
    IN  IF baseRule = NoRule THEN DefaultBasePricePerPage
        ELSE NumOrElse(<<baseRule.basePrice>>, DefaultBasePricePerPage)

CitationApplies(orderData) ==
    /\ orderData.citationStyle # Undefined
    /\ orderData.citationStyle # ""
    /\ orderData.citationStyle # "none"

\* PricingRule.calculatePrice(orderData), in cents.
calculatePrice(rs, orderData) ==
    LET pageCount == NumOrElse(orderData.pageCount, 1)
        t0 == <<BasePricePerPage(rs) * pageCount, 1>>
        t1 == ApplyRule(t0, FindActiveRule(rs, "education_level", orderData.educationLevel))
        t2 == ApplyRule(t1, FindActiveRule(rs, "task_type", orderData.taskType))
        t3 == ApplyRule(t2, FindActiveRule(rs, "urgency",
                                           StrOrElse(orderData.urgency, "standard")))
        t4 == ApplyRule(t3, FindActiveRule(rs, "complexity",
                                           StrOrElse(orderData.complexityLevel, "standard")))
        t5 == IF CitationApplies(orderData)
              THEN ApplyRule(t4, FindActiveRule(rs, "citation_style", orderData.citationStyle))
              ELSE t4
    IN  MathRound(t5)

(***************************************************************************)
(* Requests.  last records the request handled last and its response.      *)
(***************************************************************************)
NoRequest == [op |-> "none", id |-> 0, user |-> "none", status |-> "undefined", code |-> 0]

Idle == [pc |-> "idle"]

\* The attributes price requests are drawn from.
PriceBodies ==
    [educationLevel : {"high_school", "phd"},
     taskType : {"essay"},
     urgency : {Undefined, "urgent"},
     complexityLevel : {Undefined},
     citationStyle : {Undefined, "none", "apa"},
     pageCount : {Absent, <<2>>}]

\* A preview that retires the education rule it has applied, for comparison.
CalculatePricePreviewConsuming(body) ==
    /\ last' = [op |-> "calculatePrice", body |-> body, code |-> 200,
                totalPrice |-> calculatePrice(rules, body)]
    /\ rules' = [i \in 1..Len(rules) |->
                    IF rules[i] = FindActiveRule(rules, "education_level", body.educationLevel)
                    THEN [rules[i] EXCEPT !.isActive = FALSE]
                    ELSE rules[i]]
    /\ UNCHANGED <<users, inflight, orders, clock, req>>

\* POST /calculate-price: the price preview.
CalculatePricePreview(body) ==
    /\ last' = [op |-> "calculatePrice", body |-> body, code |-> 200,
                totalPrice |-> calculatePrice(rules, body)]
    /\ UNCHANGED <<users, inflight, rules, orders, clock, req>>

(***************************************************************************)
(* Rule administration.                                                    *)
(***************************************************************************)
RuleNames(rs) == {rs[i].name : i \in 1..Len(rs)}

RuleIndex(rs, name) == CHOOSE i \in 1..Len(rs) : rs[i].name = name

RemoveAt(rs, i) == SubSeq(rs, 1, i - 1) \o SubSeq(rs, i + 1, Len(rs))

\* The schema's validators of a rule: multiplier in [0.1, 10], basePrice >= 0.
ValidRule(r) ==
    /\ 10 * r.multiplier[1] >= r.multiplier[2]
    /\ r.multiplier[1] <= 10 * r.multiplier[2]
    /\ r.basePrice >= 0

\* The rules an administrator posts beyond the default catalog.
CustomRules ==
    { [name |-> "base_price_per_page", category |-> "page_count", appliesTo |-> "base",
       multiplier |-> <<1, 1>>, basePrice |-> 2001, isActive |-> TRUE, priority |-> 0],
      [name |-> "none_citation_fee", category |-> "citation_style", appliesTo |-> "none",
       multiplier |-> <<2, 1>>, basePrice |-> 0, isActive |-> TRUE, priority |-> 0],
      [name |-> "phd_level", category |-> "education_level", appliesTo |-> "phd",
       multiplier |-> <<3, 1>>, basePrice |-> 0, isActive |-> TRUE, priority |-> 10],
      [name |-> "phd_flat", category |-> "education_level", appliesTo |-> "phd",
       multiplier |-> <<1, 1>>, basePrice |-> 0, isActive |-> TRUE, priority |-> 20],
      [name |-> "urgent_urgency", category |-> "urgency", appliesTo |-> "urgent",
       multiplier |-> <<3, 2>>, basePrice |-> 0, isActive |-> TRUE, priority |-> 8],
      [name |-> "too_cheap", category |-> "urgency", appliesTo |-> "rush",
       multiplier |-> <<1, 20>>, basePrice |-> 0, isActive |-> TRUE, priority |-> 0] }

\* The rules update and delete requests name.
TargetNames == {"base_price_per_page", "phd_flat", "essay_task"}

RulePatches == { [isActive |-> FALSE], [multiplier |-> <<2, 1>>], [basePrice |-> 0] }

\* POST /api/pricing: PricingRule.create(req.body); name is unique.
createPricingRule(body) ==
    /\ Len(rules) < MaxRules
    /\ IF ~ValidRule(body)
       THEN /\ rules' = rules
            /\ last' = [op |-> "createPricingRule", name |-> body.name, code |-> 500]
       ELSE IF body.name \in RuleNames(rules)
       THEN /\ rules' = rules
            /\ last' = [op |-> "createPricingRule", name |-> body.name, code |-> 400]
       ELSE /\ rules' = Append(rules, body)
            /\ last' = [op |-> "createPricingRule", name |-> body.name, code |-> 201]
    /\ UNCHANGED <<users, inflight, orders, clock, req>>

ApplyPatch(r, patch) ==
    [f \in DOMAIN r |-> IF f \in DOMAIN patch THEN patch[f] ELSE r[f]]

\* PUT /api/pricing/:id: findByIdAndUpdate(id, req.body, {runValidators: true}).
updatePricingRule(name, patch) ==
    /\ IF name \notin RuleNames(rules)
       THEN /\ rules' = rules
            /\ last' = [op |-> "updatePricingRule", name |-> name, code |-> 404]
       ELSE LET i == RuleIndex(rules, name) IN
            /\ rules' = [rules EXCEPT ![i] = ApplyPatch(rules[i], patch)]
            /\ last' = [op |-> "updatePricingRule", name |-> name, code |-> 200]
    /\ UNCHANGED <<users, inflight, orders, clock, req>>

\* DELETE /api/pricing/:id: findByIdAndDelete(id).
deletePricingRule(name) ==
    /\ IF name \notin RuleNames(rules)
       THEN /\ rules' = rules
            /\ last' = [op |-> "deletePricingRule", name |-> name, code |-> 404]
       ELSE /\ rules' = RemoveAt(rules, RuleIndex(rules, name))
            /\ last' = [op |-> "deletePricingRule", name |-> name, code |-> 200]
    /\ UNCHANGED <<users, inflight, orders, clock, req>>

\* A seed that keeps the rules whose names are not in the default catalog,
\* for comparison.
seedPricingRulesKeeping ==
    /\ rules' = LET Custom(r) == r.name \notin RuleNames(DefaultRules)
                IN  SelectSeq(rules, Custom) \o DefaultRules
    /\ last' = [op |-> "seedPricingRules", code |-> 200]
    /\ UNCHANGED <<users, inflight, orders, clock, req>>

\* POST /api/pricing/seed: deleteMany({}) and insertMany(defaultRules).
seedPricingRules ==
    /\ rules' = DefaultRules
    /\ last' = [op |-> "seedPricingRules", code |-> 200]
    /\ UNCHANGED <<users, inflight, orders, clock, req>>

RuleAdmin ==
    \/ \E body \in CustomRules : createPricingRule(body)
    \/ \E name \in TargetNames, patch \in RulePatches : updatePricingRule(name, patch)
    \/ \E name \in TargetNames : deletePricingRule(name)
    \/ seedPricingRules

(***************************************************************************)
(* Users.  protect sets req.user; the role decides what updateOrder allows. *)
(***************************************************************************)
Users == {"s1", "s2", "adm"}

Role(user) == IF user = "adm" THEN "admin" ELSE "student"

(***************************************************************************)
(* Order creation.                                                         *)
(***************************************************************************)
Statuses == {"pending", "in_progress", "review", "completed", "cancelled"}

HourMs == 1000 * 60 * 60

\* A store without the unique index, for comparison with OrderNumbers.
OrderNumbersUnindexed(os) == {}

OrderNumbers(os) == {os[i].orderNumber : i \in 1..Len(os)}

\* A derivation whose boundaries are exclusive, for comparison.
DeriveUrgencyStrict(deadline, now) ==
    IF deadline - now < 24 * HourMs THEN "urgent"
    ELSE IF deadline - now < 72 * HourMs THEN "rush"
    ELSE "standard"

\* createOrder lines 24-35: the urgency of a deadline, seen at time now.
\* hoursUntilDeadline <= 24 is (deadline - now) / HourMs <= 24.
DeriveUrgency(deadline, now) ==
    IF deadline - now <= 24 * HourMs THEN "urgent"
    ELSE IF deadline - now <= 72 * HourMs THEN "rush"
    ELSE "standard"

\* createOrder lines 14-35: the order data, priced as the request body stands
\* and only then given the urgency of its deadline.
BuildOrderData(body, user, rs, now) ==
    LET orderData == [body EXCEPT !.student = user]
        totalPrice == calculatePrice(rs, orderData)
    IN  [orderData EXCEPT !.basePrice = totalPrice,
                          !.totalPrice = totalPrice,
                          !.urgency = DeriveUrgency(body.deadline, now)]

\* A creation request body with the fields of the order data it does not carry.
CreateBody(educationLevel, pageCount, urgency, deadline, orderNumber, status) ==
    [educationLevel |-> educationLevel, taskType |-> "essay",
     pageCount |-> pageCount, complexityLevel |-> Undefined,
     citationStyle |-> Undefined, urgency |-> urgency, deadline |-> deadline,
     orderNumber |-> orderNumber, status |-> status,
     student |-> Undefined, basePrice |-> 0, totalPrice |-> 0]

\* new Order(orderData): the schema's defaults for what the data leaves out.
NewOrder(orderData) ==
    [student |-> orderData.student,
     orderNumber |-> orderData.orderNumber,
     educationLevel |-> orderData.educationLevel,
     taskType |-> orderData.taskType,
     pageCount |-> IF orderData.pageCount = Absent THEN 1 ELSE orderData.pageCount[1],
     complexityLevel |-> IF orderData.complexityLevel = Undefined THEN "standard"
                         ELSE orderData.complexityLevel,
     citationStyle |-> IF orderData.citationStyle = Undefined THEN "none"
                       ELSE orderData.citationStyle,
     deadline |-> orderData.deadline,
     urgency |-> orderData.urgency,
     basePrice |-> orderData.basePrice,
     totalPrice |-> orderData.totalPrice,
     status |-> IF orderData.status = Undefined THEN "pending" ELSE orderData.status,
     statusHistory |-> <<>>,
     progress |-> IF "progress" \in DOMAIN orderData /\ orderData.progress # Absent
                  THEN orderData.progress[1] ELSE 0,
     additionalInstructions |-> "",
     adminNotes |-> "",
     rating |-> Absent,
     review |-> "",
     reviewedAt |-> Absent,
     createdAt |-> Absent]

\* The schema's validators, run before the pre("save") hooks of the schema:
\* orderNumber is required, status is one of the enumeration.
ValidNewOrder(doc) ==
    /\ doc.orderNumber # Undefined
    /\ doc.status \in Statuses
    /\ doc.totalPrice >= 0
    /\ doc.progress >= 0 /\ doc.progress <= 100

\* orderSchema.pre("save") of a new document: the order number drawn at random
\* (n is the NNNNNN part; the ORD-YYMM- prefix is the same for every order of
\* the modelled time span) and the first entry of the history.
PreSaveNew(doc, n, now) ==
    [doc EXCEPT !.orderNumber = n,
                !.statusHistory = Append(@, [status |-> doc.status, timestamp |-> now,
                                             note |-> "Order created"]),
                !.createdAt = <<now>>]

\* What last keeps of a request: the operation, the order it names, the user,
\* the status the body asks for, and the status code of the response.
Response(op, id, user, status, code) ==
    [op |-> op, id |-> id, user |-> user, status |-> status, code |-> code]

\* The error message of createOrder when the loop gives up (line 55) and the
\* one of its catch block (line 70).
ExhaustedError == "Server error creating order"

CaughtError == "Server error creating order"

\* The response of createOrder: a status code and, on failure, {success:
\* false, error}.
CreateResponse(id, user, code, error) ==
    [op |-> "createOrder", id |-> id, user |-> user, status |-> Undefined,
     code |-> code, error |-> error]

\* createOrder lines 12-35, up to the retry loop.
createOrderBegin(user, body) ==
    /\ req.pc = "idle"
    /\ req' = [pc |-> "insert", attempts |-> 0,
               orderData |-> BuildOrderData(body, user, rules, clock)]
    /\ UNCHANGED <<users, inflight, rules, orders, clock, last>>

MaxAttempts == 3

\* A loop that allows one attempt more, for comparison with LoopAgain.
LoopAgainOnceMore(attempts) == attempts <= MaxAttempts

\* Whether the loop `while (!order && attempts < 3)` runs again.
LoopAgain(attempts) == attempts < MaxAttempts

\* createOrder lines 40-72: one turn of the retry loop, Order.create(orderData),
\* with the response when the loop ends.  n is the number the hook draws;
\* fault is a failure of the store that is no duplicate key.
InsertTurn(os, q, n, fault, now) ==
    LET doc == NewOrder(q.orderData)
        saved == PreSaveNew(doc, n, now)
        user == q.orderData.student
    IN  IF ~ValidNewOrder(doc) \/ fault
        THEN \* thrown past the loop, to the outer catch
             [orders |-> os, again |-> FALSE,
              response |-> CreateResponse(0, user, 500, CaughtError)]
        ELSE IF n \in OrderNumbers(os)
        THEN \* E11000 on orderNumber
             IF LoopAgain(q.attempts + 1)
             THEN [orders |-> os, again |-> TRUE, response |-> NoRequest]
             ELSE [orders |-> os, again |-> FALSE,
                   response |-> CreateResponse(0, user, 500, ExhaustedError)]
        ELSE [orders |-> Append(os, saved), again |-> FALSE,
              response |-> CreateResponse(Len(os) + 1, user, 201, "")]

\* One turn of the loop of the createOrder request served on its own.
createOrderInsert(n, fault) ==
    /\ req.pc = "insert"
    /\ LET turn == InsertTurn(orders, req, n, fault, clock)
       IN  /\ orders' = turn.orders
           /\ req' = IF turn.again THEN [req EXCEPT !.attempts = @ + 1] ELSE Idle
           /\ last' = IF turn.again THEN last ELSE turn.response
    /\ UNCHANGED <<users, inflight, rules, clock>>

\* Time passes.
Tick ==
    /\ clock < MaxClock
    /\ clock' = clock + 1
    /\ UNCHANGED <<users, inflight, rules, orders, req, last>>

RandomNums == 0..(MaxRand - 1)

\* The creation requests of SpecCreate: deadlines around the 24 h and 72 h
\* boundaries, with and without an urgency in the body, and one request whose
\* body carries no order number and one whose body carries a status.
Deadlines ==
    {24 * HourMs, 24 * HourMs + 1000, 72 * HourMs, 72 * HourMs + 1000}

CreateBodies ==
    {CreateBody("phd", Absent, u, d, "ORD", Undefined) :
        u \in {Undefined, "urgent"}, d \in Deadlines}
    \cup {CreateBody("phd", Absent, Undefined, 24 * HourMs, Undefined, Undefined),
          CreateBody("phd", Absent, Undefined, 72 * HourMs, "ORD", "completed")}

(***************************************************************************)
(* The order lifecycle: updateOrder, cancelOrder, reviewOrder.             *)
(***************************************************************************)
Terminal == {"completed", "cancelled"}

\* A string longer than the schema's maxlength of the field it is put in.
TooLong == "<too long>"

Truthy(x) == x # Undefined /\ x # ""

\* order.save() of a loaded document: the validators of the schema.
ValidOrder(doc) ==
    /\ doc.status \in Statuses
    /\ \A k \in 1..Len(doc.statusHistory) : doc.statusHistory[k].status \in Statuses
    /\ doc.additionalInstructions # TooLong
    /\ doc.review # TooLong
    /\ doc.rating # Absent => (doc.rating[1] >= 1 /\ doc.rating[1] <= 5)
    /\ doc.progress >= 0 /\ doc.progress <= 100

\* A status change that forgets the history, for comparison with SetStatus.
SetStatusNoHistory(order, status, now, note) == [order EXCEPT !.status = status]

\* order.status = status; order.statusHistory.push({status, timestamp, note}).
SetStatus(order, status, now, note) ==
    [order EXCEPT !.status = status,
                  !.statusHistory = Append(@, [status |-> status, timestamp |-> now,
                                               note |-> note])]

\* The outcome of a handler that has loaded order: the status code of its
\* response and the document it leaves (order itself when nothing is saved).
Refused(order, code) == [code |-> code, doc |-> order]

\* A save that writes field by field and skips the fields the validators turn
\* down, for comparison with Saved.
SavedFieldwise(order, doc) ==
    IF ValidOrder(doc) THEN [code |-> 200, doc |-> doc]
    ELSE [code |-> 500,
          doc |-> [doc EXCEPT !.additionalInstructions = order.additionalInstructions,
                              !.review = order.review,
                              !.rating = order.rating,
                              !.progress = order.progress]]

\* await order.save(): the document when it passes the validators of the
\* schema (response 200), or the error that goes to the catch (response 500).
Saved(order, doc) ==
    IF ValidOrder(doc) THEN [code |-> 200, doc |-> doc] ELSE Refused(order, 500)

\* The step of a handler served on its own: the outcome persisted and answered.
Respond(op, id, user, status, out) ==
    /\ orders' = [orders EXCEPT ![id] = out.doc]
    /\ last' = Response(op, id, user, status, out.code)

Reject(op, id, user, status, code) ==
    /\ orders' = orders
    /\ last' = Response(op, id, user, status, code)

\* An owner's update that also clears the price, for comparison.
OwnerUpdateRepriced(order, body, now) ==
    IF Truthy(body.additionalInstructions)
    THEN [order EXCEPT !.additionalInstructions = body.additionalInstructions,
                       !.totalPrice = 0]
    ELSE order

\* updateOrder lines 188-215: the owner who is no administrator.
OwnerUpdate(order, body, now) ==
    LET o1 == IF body.status = "cancelled"
              THEN SetStatus(order, "cancelled", now, "Cancelled by student")
              ELSE order
    IN  IF Truthy(body.additionalInstructions)
        THEN [o1 EXCEPT !.additionalInstructions = body.additionalInstructions]
        ELSE o1

\* A check that lets every status of the owner pass, for comparison.
OwnerForbiddenNever(body) == FALSE

\* Whether the owner's request is turned down as forbidden (line 189).

OwnerForbidden(body) == Truthy(body.status) /\ body.status # "cancelled"

\* A test that takes every status for a change, for comparison.
AdminChangesStatusAlways(order, body) == Truthy(body.status)

\* Whether the administrator's request changes the status (line 220).
AdminChangesStatus(order, body) == Truthy(body.status) /\ body.status # order.status

\* A clamp from above only, for comparison with ClampProgress.
ClampProgressAbove(p) == IF p > 100 THEN 100 ELSE p

\* Math.max(0, Math.min(100, progress)) (line 234).
ClampProgress(p) ==
    LET Min(a, b) == IF a < b THEN a ELSE b
        Max(a, b) == IF a > b THEN a ELSE b
    IN  Max(0, Min(100, p))

\* updateOrder lines 217-235: the administrator.
AdminUpdate(order, body, now) ==
    LET o1 == IF AdminChangesStatus(order, body)
              THEN SetStatus(order, body.status, now,
                             StrOrElse(body.statusNote, "Status updated by admin"))
              ELSE order
        o2 == IF body.adminNotes # Undefined
              THEN [o1 EXCEPT !.adminNotes = body.adminNotes]
              ELSE o1
    IN  IF body.progress # Absent
        THEN [o2 EXCEPT !.progress = ClampProgress(body.progress[1])]
        ELSE o2

\* updateOrder lines 176-238, once the order is loaded.
UpdateOutcome(order, user, body, now) ==
    LET isOwner == order.student = user
        isAdmin == Role(user) = "admin"
    IN  IF ~isOwner /\ ~isAdmin THEN Refused(order, 403)
        ELSE IF isOwner /\ ~isAdmin
        THEN IF OwnerForbidden(body) THEN Refused(order, 403)
             ELSE IF body.status = "cancelled" /\ order.status \in Terminal
             THEN Refused(order, 400)
             ELSE Saved(order, OwnerUpdate(order, body, now))
        ELSE Saved(order, AdminUpdate(order, body, now))

\* PUT /api/orders/:id (and /:id/status): updateOrder.
updateOrder(id, user, body) ==
    /\ IF id > Len(orders)
       THEN Reject("updateOrder", id, user, body.status, 404)
       ELSE Respond("updateOrder", id, user, body.status,
                    UpdateOutcome(orders[id], user, body, clock))
    /\ UNCHANGED <<users, inflight, rules, clock, req>>

\* Whether cancelOrder turns the request down because of the order's status.
CannotCancel(order) == order.status \in Terminal

\* cancelOrder lines 270-293, once the order is loaded.
CancelOutcome(order, user, reason, now) ==
    IF order.student # user THEN Refused(order, 403)
    ELSE IF CannotCancel(order) THEN Refused(order, 400)
    ELSE Saved(order, SetStatus(order, "cancelled", now,
                                StrOrElse(reason, "Cancelled by student")))

\* PUT /api/orders/:id/cancel: cancelOrder.
cancelOrder(id, user, reason) ==
    /\ IF id > Len(orders)
       THEN Reject("cancelOrder", id, user, "cancelled", 404)
       ELSE Respond("cancelOrder", id, user, "cancelled",
                    CancelOutcome(orders[id], user, reason, clock))
    /\ UNCHANGED <<users, inflight, rules, clock, req>>

\* A check that never finds a review, for comparison with AlreadyReviewed.
AlreadyReviewedNever(order) == FALSE

\* Whether reviewOrder takes the order as reviewed already (line 342).  A
\* rating that is undefined or null in the request leaves the stored rating
\* null: the document loads with the schema's default.

AlreadyReviewed(order) == order.rating # Absent

\* reviewOrder lines 349-351.
WriteReview(order, rating, review, now) ==
    [order EXCEPT !.rating = rating,
                  !.review = IF review = Undefined THEN "" ELSE review,
                  !.reviewedAt = <<now>>]

\* reviewOrder lines 325-353, once the order is loaded.
ReviewOutcome(order, user, rating, review, now) ==
    IF order.student # user THEN Refused(order, 403)
    ELSE IF order.status # "completed" THEN Refused(order, 400)
    ELSE IF AlreadyReviewed(order) THEN Refused(order, 400)
    ELSE Saved(order, WriteReview(order, rating, review, now))

\* POST /api/orders/:id/review: reviewOrder.
reviewOrder(id, user, rating, review) ==
    /\ IF id > Len(orders)
       THEN Reject("reviewOrder", id, user, Undefined, 404)
       ELSE Respond("reviewOrder", id, user, Undefined,
                    ReviewOutcome(orders[id], user, rating, review, clock))
    /\ UNCHANGED <<users, inflight, rules, clock, req>>

\* An update request body with the fields it does not carry.
UpdateBody(status, additionalInstructions) ==
    [status |-> status, additionalInstructions |-> additionalInstructions,
     adminNotes |-> Undefined, progress |-> Absent, statusNote |-> Undefined]

\* The requests of Spec.
UpdateBodies ==
    {UpdateBody(st, Undefined) : st \in {Undefined, "in_progress", "completed", "cancelled"}}
    \cup {UpdateBody("in_progress", "see notes"), UpdateBody("cancelled", TooLong)}

\* The reviews of Spec: <<rating, review>>.
ReviewBodies == {<<Absent, "good">>, <<(<<5>>), Undefined>>, <<(<<6>>), "fine">>}

OrderIds == 1..MaxTracked

HistoryBounded ==
    \A i \in 1..Len(orders) : Len(orders[i].statusHistory) <= MaxHistory

\* The requests that may be served at the same time, and one not under way.
Requests == {"r1", "r2"}

NotInFlight == [pc |-> "idle"]

\* The requests on one order served at the same time: the operation, the
\* user, and the update body or the reason of the cancellation.
ConcRequests ==
    { [op |-> "updateOrder", user |-> "adm", body |-> UpdateBody("completed", Undefined)],
      [op |-> "updateOrder", user |-> "adm", body |-> UpdateBody("in_progress", Undefined)],
      [op |-> "updateOrder", user |-> "s1", body |-> UpdateBody("cancelled", Undefined)],
      [op |-> "cancelOrder", user |-> "s1", body |-> [reason |-> Undefined]] }

\* What a request answers, and leaves of the order, once it has loaded order.
OutcomeOf(q, order, now) ==
    IF q.op = "updateOrder" THEN UpdateOutcome(order, q.user, q.body, now)
    ELSE IF q.op = "reviewOrder"
    THEN ReviewOutcome(order, q.user, q.body.rating, q.body.review, now)
    ELSE CancelOutcome(order, q.user, q.body.reason, now)

\* The status a request asks for, as last keeps it.
AskedStatus(q) ==
    IF q.op = "cancelOrder" THEN "cancelled"
    ELSE IF q.op = "reviewOrder" THEN Undefined
    ELSE q.body.status

\* The other of the two requests.
Other(r) == CHOOSE r2 \in Requests : r2 # r

\* await Order.findById(req.params.id): the request holds its own copy of the
\* order from here on.  base is the order as it was when the first of the
\* requests under way or just answered loaded it.
LoadOrder(r, id, q) ==
    /\ inflight[r].pc = "idle"
    /\ id <= Len(orders)
    /\ inflight[Other(r)].pc \in {"idle", "loaded", "done"}
    /\ LET o == inflight[Other(r)]
           base == IF o.pc \in {"loaded", "done"} /\ o.id = id THEN o.base
                   ELSE orders[id]
       IN  inflight' = [inflight EXCEPT ![r] =
                          [pc |-> "loaded", id |-> id, q |-> q,
                           order |-> orders[id], base |-> base, at |-> clock]]
    /\ UNCHANGED <<users, rules, orders, clock, req, last>>

\* What order.save() writes: the paths modified since the document was loaded,
\* a scalar with $set and the entries pushed to statusHistory with $push, on
\* the document as it is in the store by then.
Persist(current, loaded, doc) ==
    [f \in DOMAIN current |->
        IF f = "statusHistory"
        THEN current.statusHistory \o SubSeq(doc.statusHistory,
                                             Len(loaded.statusHistory) + 1,
                                             Len(doc.statusHistory))
        ELSE IF doc[f] # loaded[f] THEN doc[f] ELSE current[f]]

\* The rest of the handler: its checks on the copy it loaded, its assignments,
\* order.save() and the response.  The handler reads the clock (new Date())
\* when findById has resolved, at some time t from the load on; the write of
\* order.save() reaches the store later, by when the clock may have moved.
SaveLoaded(r) ==
    /\ inflight[r].pc = "loaded"
    /\ \E t \in inflight[r].at..clock :
         LET p == inflight[r]
             out == OutcomeOf(p.q, p.order, t)
         IN  /\ orders' = [orders EXCEPT ![p.id] = Persist(@, p.order, out.doc)]
             /\ last' = Response(p.q.op, p.id, p.q.user, AskedStatus(p.q), out.code)
             /\ inflight' = [inflight EXCEPT ![r] =
                               [pc |-> "done", id |-> p.id, q |-> p.q,
                                order |-> p.order, base |-> p.base, at |-> p.at,
                                code |-> out.code]]
    /\ UNCHANGED <<users, rules, clock, req>>

\* createOrder lines 12-39 of a request served beside another; started is the
\* number of orders persisted by then.
RaceBegin(r, user, body) ==
    /\ inflight[r].pc = "idle"
    /\ inflight[Other(r)].pc \in {"idle", "insert", "created"}
    /\ inflight' = [inflight EXCEPT ![r] =
                      [pc |-> "insert", attempts |-> 0, started |-> Len(orders),
                       orderData |-> BuildOrderData(body, user, rules, clock)]]
    /\ UNCHANGED <<users, rules, orders, clock, req, last>>

\* One turn of its loop: the insert is one atomic operation of the store.
RaceInsert(r, n) ==
    /\ inflight[r].pc = "insert"
    /\ LET turn == InsertTurn(orders, inflight[r], n, FALSE, clock)
       IN  /\ orders' = turn.orders
           /\ inflight' = [inflight EXCEPT ![r] =
                             IF turn.again THEN [@ EXCEPT !.attempts = @ + 1]
                             ELSE [@ EXCEPT !.pc = "created"]]
           /\ last' = IF turn.again THEN last ELSE turn.response
    /\ UNCHANGED <<users, rules, clock, req>>

\* PricingRule.calculatePrice, one await at a time: turn 0 reads the base
\* rule, turns 1 to 5 the rule of the education level, the task type, the
\* urgency, the complexity and the citation style, each from the store rs as
\* it is at that turn.
PriceStep(rs, orderData, step, total) ==
    CASE step = 0 -> <<BasePricePerPage(rs) * NumOrElse(orderData.pageCount, 1), 1>>
      [] step = 1 -> ApplyRule(total, FindActiveRule(rs, "education_level",
                                                     orderData.educationLevel))
      [] step = 2 -> ApplyRule(total, FindActiveRule(rs, "task_type", orderData.taskType))
      [] step = 3 -> ApplyRule(total, FindActiveRule(rs, "urgency",
                                                     StrOrElse(orderData.urgency, "standard")))
      [] step = 4 -> ApplyRule(total, FindActiveRule(rs, "complexity",
                                          StrOrElse(orderData.complexityLevel, "standard")))
      [] OTHER    -> IF CitationApplies(orderData)
                     THEN ApplyRule(total, FindActiveRule(rs, "citation_style",
                                                          orderData.citationStyle))
                     ELSE total

\* POST /calculate-price of a request served beside rule administration;
\* before is the rule store as the request found it.
PriceBegin(r, body) ==
    /\ inflight[r].pc = "idle"
    /\ inflight[Other(r)].pc \in {"idle", "done"}
    /\ inflight' = [inflight EXCEPT ![r] =
                      [pc |-> "pricing", step |-> 0, total |-> <<0, 1>>,
                       body |-> body, before |-> rules]]
    /\ UNCHANGED <<users, rules, orders, clock, req, last>>

\* The next findOne of the request, and the response after the last.
PriceLookup(r) ==
    /\ inflight[r].pc = "pricing"
    /\ LET p == inflight[r]
           t == PriceStep(rules, p.body, p.step, p.total)
       IN  IF p.step < 5
           THEN /\ inflight' = [inflight EXCEPT ![r] = [p EXCEPT !.step = @ + 1,
                                                                !.total = t]]
                /\ last' = last
           ELSE /\ inflight' = [inflight EXCEPT ![r] =
                                  [pc |-> "done", body |-> p.body, before |-> p.before,
                                   totalPrice |-> MathRound(t)]]
                /\ last' = [op |-> "calculatePrice", body |-> p.body, code |-> 200,
                            totalPrice |-> MathRound(t)]
    /\ UNCHANGED <<users, rules, orders, clock, req>>

\* insertMany(docs), ordered: the documents are inserted one by one up to the
\* first whose name is in the store already (E11000).
RECURSIVE InsertMany(_, _)
InsertMany(rs, docs) ==
    IF docs = <<>> THEN [rules |-> rs, code |-> 200]
    ELSE IF Head(docs).name \in RuleNames(rs) THEN [rules |-> rs, code |-> 500]
    ELSE InsertMany(Append(rs, Head(docs)), Tail(docs))

\* seedPricingRules of a request served beside others: await deleteMany({}).
SeedDelete(r) ==
    /\ inflight[r].pc = "idle"
    /\ inflight[Other(r)].pc # "seeding"
    /\ rules' = <<>>
    /\ inflight' = [inflight EXCEPT ![r] = [pc |-> "seeding"]]
    /\ UNCHANGED <<users, orders, clock, req, last>>

\* await insertMany(defaultRules), and the response.
SeedInsert(r) ==
    /\ inflight[r].pc = "seeding"
    /\ LET out == InsertMany(rules, DefaultRules)
       IN  /\ rules' = out.rules
           /\ last' = [op |-> "seedPricingRules", code |-> out.code]
    /\ inflight' = [inflight EXCEPT ![r] = [pc |-> "done"]]
    /\ UNCHANGED <<users, orders, clock, req>>

\* Both requests are answered or were never sent: the next two may come.
Settle ==
    /\ \A r \in Requests : inflight[r].pc \in {"idle", "done", "created"}
    /\ \E r \in Requests : inflight[r].pc \in {"done", "created"}
    /\ inflight' = [r \in Requests |-> NotInFlight]
    /\ UNCHANGED <<users, rules, orders, clock, req, last>>

(***************************************************************************)
(* Authentication: generateToken and the protect middleware.               *)
(***************************************************************************)
\* The paths of userSchema that matter here, with the defaults of a user that
\* registers.  The schema has no path tokenVersion.
NewUser(email) ==
    [email |-> email, role |-> "student", isActive |-> TRUE, lastLogin |-> Absent]

\* user.path: the value wrapped as <<v>>, or undefined for a path the document
\* does not have.
Get(doc, path) == IF path \in DOMAIN doc THEN <<doc[path]>> ELSE Absent

\* x ?? dflt
Nullish(x, dflt) == IF x = Absent THEN dflt ELSE x[1]

JwtSecret == "JWT_SECRET"

\* expiresIn: process.env.JWT_EXPIRE || "7d", in milliseconds.
JwtExpire == 7 * 24 * HourMs

\* jwt.sign(payload, key, {expiresIn}): the payload with the time of issue and
\* of expiry, signed with the key.
JwtSign(payload, key, now) ==
    [payload |-> payload, iat |-> now, exp |-> now + JwtExpire, key |-> key]

\* jwt.verify(token, key): the payload, or the error thrown.
JwtVerify(token, key, now) ==
    IF token.key # key THEN [error |-> "invalid signature"]
    ELSE IF now >= token.exp THEN [error |-> "jwt expired"]
    ELSE [error |-> "", decoded |-> token.payload]

\* generateToken(user), for the user stored as users[id].
generateToken(user, id, now) ==
    JwtSign([id |-> id, email |-> user.email, role |-> user.role,
             tokenVersion |-> <<Nullish(Get(user, "tokenVersion"), 0)>>],
            JwtSecret, now)

NoToken == [key |-> Null]

AuthResponse(id, code, error) == [op |-> "protect", id |-> id, code |-> code, error |-> error]

NotAuthorized == "Not authorized to access this route"
Revoked == "Token has been revoked. Please log in again."

\* (decoded.tokenVersion ?? 0) !== user.tokenVersion
VersionDiffers(decoded, user) ==
    <<Nullish(decoded.tokenVersion, 0)>> # Get(user, "tokenVersion")

\* protect: the response of the middleware, code 200 standing for next() with
\* req.user set to the user of that id.
protect(us, token, now) ==
    IF token = NoToken THEN AuthResponse(0, 401, NotAuthorized)
    ELSE LET v == JwtVerify(token, JwtSecret, now)
         IN  IF v.error # "" THEN AuthResponse(0, 401, NotAuthorized)
             ELSE IF v.decoded.id > Len(us)
             THEN AuthResponse(v.decoded.id, 401, "User not found")
             ELSE IF VersionDiffers(v.decoded, us[v.decoded.id])
             THEN AuthResponse(v.decoded.id, 401, Revoked)
             ELSE IF ~us[v.decoded.id].isActive
             THEN AuthResponse(v.decoded.id, 401, "User account is deactivated")
             ELSE AuthResponse(v.decoded.id, 200, "")

Emails == {"a@example.com", "b@example.com"}

EmailsOf(us) == {us[i].email : i \in 1..Len(us)}

\* POST /api/auth/register: the client r keeps the token of the response.
register(r, email) ==
    /\ inflight[r].pc = "idle"
    /\ IF email \in EmailsOf(users)
       THEN /\ last' = [op |-> "register", email |-> email, code |-> 400]
            /\ UNCHANGED <<users, inflight>>
       ELSE /\ users' = Append(users, NewUser(email))
            /\ inflight' = [inflight EXCEPT ![r] =
                              [pc |-> "token",
                               token |-> generateToken(NewUser(email), Len(users) + 1, clock)]]
            /\ last' = [op |-> "register", email |-> email, code |-> 201]
    /\ UNCHANGED <<rules, orders, clock, req>>

\* POST /api/auth/login; isMatch is the outcome of comparePassword.
login(r, email, isMatch) ==
    /\ inflight[r].pc = "idle"
    /\ IF email \notin EmailsOf(users) \/ ~isMatch
       THEN /\ last' = [op |-> "login", email |-> email, code |-> 401]
            /\ UNCHANGED <<users, inflight>>
       ELSE LET id == CHOOSE i \in 1..Len(users) : users[i].email = email
                user == [users[id] EXCEPT !.lastLogin = <<clock>>]
            IN  IF ~users[id].isActive
                THEN /\ last' = [op |-> "login", email |-> email, code |-> 401]
                     /\ UNCHANGED <<users, inflight>>
                ELSE /\ users' = [users EXCEPT ![id] = user]
                     /\ inflight' = [inflight EXCEPT ![r] =
                                       [pc |-> "token",
                                        token |-> generateToken(user, id, clock)]]
                     /\ last' = [op |-> "login", email |-> email, code |-> 200]
    /\ UNCHANGED <<rules, orders, clock, req>>

\* A request to a protected route by the client r: with the token it holds,
\* with that token under another signature, or with none.
Presented(r) ==
    IF inflight[r].pc = "token"
    THEN {inflight[r].token, [inflight[r].token EXCEPT !.key = "guessed"], NoToken}
    ELSE {NoToken}

authenticate(r, token) ==
    /\ token \in Presented(r)
    /\ last' = protect(users, token, clock)
    /\ UNCHANGED <<users, rules, orders, clock, req, inflight>>

\* The client r drops its token.
discardToken(r) ==
    /\ inflight[r].pc = "token"
    /\ inflight' = [inflight EXCEPT ![r] = NotInFlight]
    /\ UNCHANGED <<users, rules, orders, clock, req, last>>

\* The time a token lives passes.
Expire ==
    /\ clock < MaxClock * JwtExpire
    /\ clock' = clock + JwtExpire
    /\ UNCHANGED <<users, inflight, rules, orders, req, last>>

Init ==
    /\ rules = <<>>
    /\ orders = <<>>
    /\ clock = 0
    /\ req = Idle
    /\ inflight = [r \in Requests |-> NotInFlight]
    /\ last = NoRequest
    /\ users = <<>>

NextPrice ==
    \/ RuleAdmin
    \/ \E body \in PriceBodies : CalculatePricePreview(body)

SpecPrice == Init /\ [][NextPrice]_vars

\* SpecConc: two requests on one order, their steps interleaved.
NextConc ==
    \/ /\ req.pc = "idle"
       /\ Len(orders) < MaxTracked
       /\ createOrderBegin("s1", CreateBody("phd", Absent, Undefined,
                                            clock + 72 * HourMs + 1000, "ORD", Undefined))
    \/ createOrderInsert(Len(orders), FALSE)
    \/ \E r \in Requests, id \in OrderIds, q \in ConcRequests :
          req.pc = "idle" /\ LoadOrder(r, id, q)
    \/ \E r \in Requests : SaveLoaded(r) /\ HistoryBounded'
    \/ Settle

SpecConc == Init /\ [][NextConc]_vars

\* SpecRace: two creation requests, their inserts interleaved, and updates of
\* the orders they persist.
NextRace ==
    \/ \E r \in Requests, u \in {Undefined, "urgent"} :
          /\ Len(orders) < MaxOrders
          /\ RaceBegin(r, "s1", CreateBody("phd", Absent, u, 72 * HourMs, "ORD", Undefined))
    \/ \E r \in Requests, n \in RandomNums : RaceInsert(r, n)
    \/ Settle
    \/ \E id \in 1..MaxOrders : updateOrder(id, "adm", UpdateBody("completed", Undefined))
    \/ \E id \in 1..MaxOrders : cancelOrder(id, "s1", Undefined)

SpecRace == Init /\ [][NextRace]_vars

\* SpecCreate: order creation, one request at a time, the first at any time.
NextCreate ==
    \/ req.pc = "idle" /\ seedPricingRules
    \/ req.pc = "idle" /\ orders = <<>> /\ Tick
    \/ \E body \in CreateBodies :
          Len(orders) < MaxOrders /\ createOrderBegin("s1", body)
    \/ \E n \in RandomNums, fault \in BOOLEAN : createOrderInsert(n, fault)

SpecCreate == Init /\ [][NextCreate]_vars

\* SpecStamps: two requests on one order, their steps interleaved, while the
\* clock runs.
StampRequests ==
    { [op |-> "updateOrder", user |-> "adm", body |-> UpdateBody("completed", Undefined)],
      [op |-> "updateOrder", user |-> "adm", body |-> UpdateBody("in_progress", Undefined)],
      [op |-> "cancelOrder", user |-> "s1", body |-> [reason |-> Undefined]] }

NextStamps ==
    \/ /\ req.pc = "idle"
       /\ Len(orders) < MaxTracked
       /\ createOrderBegin("s1", CreateBody("phd", Absent, Undefined,
                                            clock + 72 * HourMs + 1000, "ORD", Undefined))
    \/ createOrderInsert(Len(orders), FALSE)
    \/ Tick
    \/ \E r \in Requests, id \in OrderIds, q \in StampRequests :
          req.pc = "idle" /\ LoadOrder(r, id, q)
    \/ \E r \in Requests : SaveLoaded(r) /\ HistoryBounded'
    \/ Settle

SpecStamps == Init /\ [][NextStamps]_vars

\* SpecProgress: orders created with and without a progress in the payload,
\* and updates that carry a progress.
ProgressValues == {<<0 - 5>>, <<40>>, <<75>>, <<150>>}

ProgressBodies ==
    {[UpdateBody(st, Undefined) EXCEPT !.progress = p] :
        st \in {Undefined, "in_progress", "completed"}, p \in ProgressValues}

ProgressCreateBodies ==
    LET plain == CreateBody("phd", Absent, Undefined, 72 * HourMs + 1000, "ORD", Undefined)
    IN  {plain} \cup {plain @@ [progress |-> p] : p \in {<<40>>, <<150>>}}

NextProgress ==
    \/ \E body \in ProgressCreateBodies :
          Len(orders) < MaxTracked /\ createOrderBegin("s1", body)
    \/ createOrderInsert(Len(orders), FALSE)
    \/ \E id \in OrderIds, user \in {"s1", "adm"}, body \in ProgressBodies :
          req.pc = "idle" /\ updateOrder(id, user, body) /\ HistoryBounded'

SpecProgress == Init /\ [][NextProgress]_vars

\* SpecReviews: two reviews of one completed order, their steps interleaved.
ReviewRequests ==
    { [op |-> "reviewOrder", user |-> "s1", body |-> [rating |-> <<5>>, review |-> "good"]],
      [op |-> "reviewOrder", user |-> "s1", body |-> [rating |-> <<2>>, review |-> "late"]] }

NextReviews ==
    \/ /\ req.pc = "idle"
       /\ Len(orders) < MaxTracked
       /\ createOrderBegin("s1", CreateBody("phd", Absent, Undefined,
                                            clock + 72 * HourMs + 1000, "ORD", Undefined))
    \/ createOrderInsert(Len(orders), FALSE)
    \/ \E id \in OrderIds :
          /\ req.pc = "idle"
          /\ \A r \in Requests : inflight[r].pc = "idle"
          /\ updateOrder(id, "adm", UpdateBody("completed", Undefined))
    \/ \E r \in Requests, id \in OrderIds, q \in ReviewRequests :
          req.pc = "idle" /\ LoadOrder(r, id, q)
    \/ \E r \in Requests : SaveLoaded(r)
    \/ Settle

SpecReviews == Init /\ [][NextReviews]_vars

\* SpecSnapshot: a price request served while an administrator changes the
\* rules.  While the price request is under way the administrator sends one
\* operation at most: he sends it when the store is as the request found it.
SnapshotBodies ==
    { [educationLevel |-> "phd", taskType |-> "essay", urgency |-> "urgent",
       complexityLevel |-> Undefined, citationStyle |-> "apa", pageCount |-> <<2>>],
      [educationLevel |-> "high_school", taskType |-> "essay", urgency |-> Undefined,
       complexityLevel |-> Undefined, citationStyle |-> Undefined, pageCount |-> Absent] }

Untouched ==
    /\ \A r \in Requests : inflight[r].pc # "seeding"
    /\ \A r \in Requests : inflight[r].pc = "pricing" => rules = inflight[r].before

NextSnapshot ==
    \/ \E body \in SnapshotBodies : PriceBegin("r1", body)
    \/ PriceLookup("r1")
    \/ Untouched /\ updatePricingRule("urgent_urgency", [multiplier |-> <<2, 1>>])
    \/ Untouched /\ deletePricingRule("phd_level")
    \/ Untouched /\ SeedDelete("r2")
    \/ SeedInsert("r2")
    \/ Settle

SpecSnapshot == Init /\ [][NextSnapshot]_vars

\* SpecAuth: clients register and log in, and present their tokens.
NextAuth ==
    \/ \E r \in Requests, email \in Emails : register(r, email)
    \/ \E r \in Requests, email \in Emails, isMatch \in BOOLEAN : login(r, email, isMatch)
    \/ \E r \in Requests : \E token \in Presented(r) : authenticate(r, token)
    \/ \E r \in Requests : discardToken(r)
    \/ Expire

SpecAuth == Init /\ [][NextAuth]_vars

\* SpecAtomic: requests that are saved, refused, or turned down by the
\* validators at the save.
AtomicBodies ==
    { UpdateBody("cancelled", TooLong),
      UpdateBody("completed", Undefined),
      UpdateBody("in_progress", "see notes") }

NextAtomic ==
    \/ /\ req.pc = "idle"
       /\ Len(orders) < MaxTracked
       /\ createOrderBegin("s1", CreateBody("phd", Absent, Undefined,
                                            clock + 72 * HourMs + 1000, "ORD", Undefined))
    \/ createOrderInsert(Len(orders), FALSE)
    \/ \E id \in OrderIds, user \in Users, body \in AtomicBodies :
          req.pc = "idle" /\ updateOrder(id, user, body) /\ HistoryBounded'
    \/ \E id \in OrderIds :
          req.pc = "idle" /\ cancelOrder(id, "s1", Undefined) /\ HistoryBounded'
    \/ \E id \in OrderIds, rv \in {<<(<<5>>), Undefined>>, <<(<<6>>), "fine">>} :
          req.pc = "idle" /\ reviewOrder(id, "s1", rv[1], rv[2])

SpecAtomic == Init /\ [][NextAtomic]_vars

\* Spec: the lifecycle of orders, one request at a time.
Next ==
    \/ /\ req.pc = "idle"
       /\ Len(orders) < MaxTracked
       /\ createOrderBegin("s1", CreateBody("phd", Absent, Undefined,
                                            clock + 72 * HourMs + 1000, "ORD", Undefined))
    \/ createOrderInsert(Len(orders), FALSE)
    \/ \E id \in OrderIds, user \in Users, body \in UpdateBodies :
          req.pc = "idle" /\ updateOrder(id, user, body) /\ HistoryBounded'
    \/ \E id \in OrderIds, user \in {"s1", "adm"} :
          req.pc = "idle" /\ cancelOrder(id, user, Undefined) /\ HistoryBounded'
    \/ \E id \in OrderIds, user \in {"s1", "adm"}, rv \in ReviewBodies :
          req.pc = "idle" /\ reviewOrder(id, user, rv[1], rv[2])

Spec == Init /\ [][Next]_vars

\* SpecFields: the lifecycle with the fields beside the status.
FieldBodies ==
    { [UpdateBody(Undefined, Undefined) EXCEPT !.adminNotes = "call back",
                                               !.progress = <<150>>],
      UpdateBody(Undefined, "see notes"),
      UpdateBody("completed", Undefined),
      UpdateBody("cancelled", Undefined) }

NextFields ==
    \/ /\ req.pc = "idle"
       /\ Len(orders) < MaxTracked
       /\ createOrderBegin("s1", CreateBody("phd", <<2>>, Undefined,
                                            clock + 72 * HourMs + 1000, "ORD", Undefined))
    \/ createOrderInsert(Len(orders), FALSE)
    \/ \E id \in OrderIds, user \in {"s1", "adm"}, body \in FieldBodies :
          req.pc = "idle" /\ updateOrder(id, user, body) /\ HistoryBounded'
    \/ \E id \in OrderIds :
          req.pc = "idle" /\ cancelOrder(id, "s1", "changed my mind") /\ HistoryBounded'
    \/ \E id \in OrderIds : req.pc = "idle" /\ reviewOrder(id, "s1", <<5>>, "good")

SpecFields == Init /\ [][NextFields]_vars

\* SpecFixed: orders of a seeded catalog while an administrator edits the
\* pricing rules.
FixedBodies ==
    { [UpdateBody(Undefined, Undefined) EXCEPT !.adminNotes = "call back",
                                               !.progress = <<150>>],
      UpdateBody("completed", "see notes"),
      UpdateBody(Undefined, "see notes") }

NextFixed ==
    \/ /\ req.pc = "idle"
       /\ Len(orders) < MaxTracked
       /\ createOrderBegin("s1", CreateBody("phd", <<2>>, Undefined,
                                            clock + 72 * HourMs + 1000, "ORD", Undefined))
    \/ createOrderInsert(Len(orders), FALSE)
    \/ req.pc = "idle" /\ seedPricingRules
    \/ req.pc = "idle" /\ createPricingRule(CHOOSE r \in CustomRules : r.name = "phd_flat")
    \/ req.pc = "idle" /\ updatePricingRule("essay_task", [multiplier |-> <<2, 1>>])
    \/ req.pc = "idle" /\ deletePricingRule("essay_task")
    \/ \E id \in OrderIds, user \in {"s1", "adm"}, body \in FixedBodies :
          req.pc = "idle" /\ updateOrder(id, user, body) /\ HistoryBounded'
    \/ \E id \in OrderIds :
          req.pc = "idle" /\ cancelOrder(id, "s1", "changed my mind") /\ HistoryBounded'
    \/ \E id \in OrderIds : req.pc = "idle" /\ reviewOrder(id, "s1", <<5>>, "good")

SpecFixed == Init /\ [][NextFixed]_vars

(***************************************************************************)
(* C9.  Multiplier composition.                                            *)
(***************************************************************************)
\* At most one active rule for every (category, appliesTo) pair.
OneActiveRulePerPair(rs) ==
    \A i, j \in 1..Len(rs) :
        (/\ rs[i].isActive /\ rs[j].isActive
         /\ rs[i].category = rs[j].category
         /\ rs[i].appliesTo = rs[j].appliesTo) => i = j

\* m(category, value): the multiplier of the matching active rule, or 1.
ClaimedMultiplier(rs, category, value) ==
    LET hits == {i \in 1..Len(rs) : /\ rs[i].isActive
                                    /\ rs[i].category = category
                                    /\ rs[i].appliesTo = value}
    IN  IF hits = {} THEN <<1, 1>> ELSE rs[CHOOSE i \in hits : TRUE].multiplier

\* A non-negative fraction rounded to the nearest integer, a half away from zero.
RoundHalfAwayFromZero(n, d) ==
    IF 2 * (n % d) >= d THEN (n \div d) + 1 ELSE n \div d

\* The price of the attributes at a given rate per page.
RatedPrice(rate, rs, body) ==
    LET pages == IF body.pageCount = Absent THEN 1 ELSE body.pageCount[1]
        e == ClaimedMultiplier(rs, "education_level", body.educationLevel)
        t == ClaimedMultiplier(rs, "task_type", body.taskType)
        u == ClaimedMultiplier(rs, "urgency",
                 IF body.urgency = Undefined THEN "standard" ELSE body.urgency)
        x == ClaimedMultiplier(rs, "complexity",
                 IF body.complexityLevel = Undefined THEN "standard"
                 ELSE body.complexityLevel)
        c == IF body.citationStyle \in {Undefined, "none"} THEN <<1, 1>>
             ELSE ClaimedMultiplier(rs, "citation_style", body.citationStyle)
    IN  RoundHalfAwayFromZero(
            rate * pages * e[1] * t[1] * u[1] * x[1] * c[1],
            e[2] * t[2] * u[2] * x[2] * c[2])

ClaimedPrice(rs, body) == RatedPrice(BasePricePerPage(rs), rs, body)

FallbackBodies ==
    [educationLevel : {"high_school", "phd"},
     taskType : {"essay"},
     urgency : {Undefined, "urgent"},
     complexityLevel : {Undefined},
     citationStyle : {Undefined, "none"},
     pageCount : {<<2>>}]

Deleted(rs, i) == RemoveAt(rs, i)

Deactivated(rs, i) == [rs EXCEPT ![i] = ApplyPatch(rs[i], [isActive |-> FALSE])]

SamePrices(rs1, rs2) ==
    \A body \in FallbackBodies : calculatePrice(rs1, body) = calculatePrice(rs2, body)

\* No active rule matches the request in any category.
NothingMatches(rs, body) ==
    \A i \in 1..Len(rs) :
        rs[i].isActive =>
            \/ rs[i].category \notin {"education_level", "task_type", "urgency",
                                      "complexity", "citation_style"}
            \/ rs[i].appliesTo \notin {body.educationLevel, body.taskType,
                                       body.urgency, body.complexityLevel,
                                       body.citationStyle, "standard"}

\* The price request always answers with a price, and with no matching rule at
\* all the price is the base rate times the page count.
PriceWithoutRules ==
    last.op = "calculatePrice" =>
        /\ last.code = 200
        /\ last.totalPrice \in Nat
        /\ NothingMatches(rules, last.body) =>
               last.totalPrice = BasePricePerPage(rules) * NumOrElse(last.body.pageCount, 1)

\* C10 as stated: deleting or deactivating any rule whose multiplier is 1.0
\* leaves every price unchanged, whatever the catalog.
C10_AnyUnitRuleRemovable ==
    /\ PriceWithoutRules
    /\ \A i \in 1..Len(rules) :
          rules[i].multiplier = <<1, 1>> =>
              /\ SamePrices(Deleted(rules, i), rules)
              /\ SamePrices(Deactivated(rules, i), rules)

\* C10 (amended): a missing or inactive rule contributes the factor 1.0 and
\* never an error; deleting or deactivating a rule whose multiplier is 1.0
\* leaves every price unchanged when the rule is not the base rate rule and no
\* other active rule applies to the same (category, appliesTo) pair.
C10_MissingRuleFallback ==
    /\ PriceWithoutRules
    /\ \A i \in 1..Len(rules) :
          (/\ rules[i].multiplier = <<1, 1>>
           /\ rules[i].name # "base_price_per_page"
           /\ \A j \in 1..Len(rules) :
                 (/\ j # i /\ rules[j].isActive
                  /\ rules[j].category = rules[i].category
                  /\ rules[j].appliesTo = rules[i].appliesTo) => FALSE)
          => /\ SamePrices(Deleted(rules, i), rules)
             /\ SamePrices(Deactivated(rules, i), rules)

\* The default catalog with its essay rule (multiplier 1.0) deleted answers a
\* price request for an essay.
C10_Witness ==
    /\ last.op = "calculatePrice"
    /\ last.body.taskType = "essay"
    /\ rules = Deleted(DefaultRules, RuleIndex(DefaultRules, "essay_task"))
    /\ last.totalPrice = calculatePrice(DefaultRules, last.body)

(***************************************************************************)
(* Claims about the lifecycle, under Spec.  A step of updateOrder,         *)
(* cancelOrder or reviewOrder starts and ends with no creation in flight,  *)
(* and last' is its request and response.                                  *)
(***************************************************************************)
HandlerStep == req.pc = "idle" /\ req'.pc = "idle"

\* C1: an order that is completed or cancelled keeps its status and its
\* history in every step, and every request that asks for a status change is
\* answered with the conflict error: cancelOrder by the owner, and updateOrder
\* with a status other than the current one by an administrator, or by the
\* owner asking for cancelled (the owner's other statuses are forbidden, C5).
C1_TerminalLock ==
    [][\A id \in 1..Len(orders) :
         orders[id].status \in Terminal =>
           /\ orders'[id].status = orders[id].status
           /\ orders'[id].statusHistory = orders[id].statusHistory
           /\ (/\ HandlerStep
               /\ last'.id = id
               /\ \/ last'.op = "cancelOrder" /\ last'.user = orders[id].student
                  \/ /\ last'.op = "updateOrder"
                     /\ Truthy(last'.status)
                     /\ last'.status # orders[id].status
                     /\ \/ Role(last'.user) = "admin"
                        \/ last'.user = orders[id].student /\ last'.status = "cancelled")
              => last'.code = 400]_vars

\* C3: every persisted order has a history of at least one entry, and the
\* status of the last entry is the status of the order.
C3_HistoryInvariant ==
    \A i \in 1..Len(orders) :
        /\ Len(orders[i].statusHistory) >= 1
        /\ orders[i].statusHistory[Len(orders[i].statusHistory)].status = orders[i].status

\* An order completed by an administrator, reviewed and then cancelled.
C3_Witness ==
    \E i \in 1..Len(orders) :
        /\ Len(orders[i].statusHistory) = 3
        /\ orders[i].reviewedAt # Absent
        /\ orders[i].status = "cancelled"

\* C5: an update by the owner, who is no administrator, with a status other
\* than cancelled is answered 403 and changes no order; the same request by an
\* administrator, with a status other than the current one, is answered 200,
\* sets the status and appends exactly one entry to the history.
C5_OwnerRestriction ==
    [][(HandlerStep /\ last'.op = "updateOrder" /\ last'.id <= Len(orders)) =>
         LET id == last'.id
             o == orders[id]
             h == o.statusHistory
             h2 == orders'[id].statusHistory
         IN  /\ (/\ last'.user = o.student
                 /\ Role(last'.user) # "admin"
                 /\ Truthy(last'.status)
                 /\ last'.status # "cancelled")
                => (last'.code = 403 /\ orders' = orders)
             /\ (/\ Role(last'.user) = "admin"
                 /\ last'.status \in Statuses
                 /\ last'.status # o.status)
                => /\ last'.code = 200
                   /\ orders'[id].status = last'.status
                   /\ Len(h2) = Len(h) + 1
                   /\ SubSeq(h2, 1, Len(h)) = h
                   /\ h2[Len(h2)].status = last'.status]_vars

\* The owner asked for in_progress on the pending order and got 403.
C5_Witness ==
    /\ last.op = "updateOrder"
    /\ last.code = 403
    /\ last.status = "in_progress"
    /\ last.id <= Len(orders)
    /\ last.user = orders[last.id].student
    /\ orders[last.id].status = "pending"

\* C6: once a review succeeded, rating, review and reviewedAt never change
\* again, and every later review request of the owner is answered with the
\* conflict error.
C6_ReviewWriteOnce ==
    [][\A id \in 1..Len(orders) :
         orders[id].reviewedAt # Absent =>
           /\ orders'[id].rating = orders[id].rating
           /\ orders'[id].review = orders[id].review
           /\ orders'[id].reviewedAt = orders[id].reviewedAt
           /\ (/\ HandlerStep
               /\ last'.op = "reviewOrder"
               /\ last'.id = id
               /\ last'.user = orders[id].student)
              => last'.code = 400]_vars

\* C7: a review request succeeds only for the owner, on a completed order whose
\* stored rating is unset; then it writes rating, review and reviewedAt and
\* nothing else (status and history stay); any other review request changes
\* no order.
C7_ReviewFrame ==
    [][(HandlerStep /\ last'.op = "reviewOrder") =>
         IF last'.code = 200
         THEN /\ last'.id <= Len(orders)
              /\ LET id == last'.id
                     o == orders[id]
                 IN  /\ last'.user = o.student
                     /\ o.status = "completed"
                     /\ o.rating = Absent
                     /\ orders'[id].status = o.status
                     /\ orders'[id].statusHistory = o.statusHistory
                     /\ \E rv \in ReviewBodies :
                          orders' = [orders EXCEPT ![id] =
                                       [o EXCEPT !.rating = rv[1],
                                                 !.review = IF rv[2] = Undefined THEN ""
                                                            ELSE rv[2],
                                                 !.reviewedAt = <<clock>>]]
         ELSE orders' = orders]_vars

\* The owner's review with rating 5 of the completed order succeeded.
C7_Witness ==
    /\ last.op = "reviewOrder"
    /\ last.code = 200
    /\ last.id <= Len(orders)
    /\ orders[last.id].rating = <<5>>
    /\ orders[last.id].reviewedAt # Absent
    /\ orders[last.id].status = "completed"

\* C13: cancelOrder on an order that is pending, in_progress or review, sent by
\* the owner or by an administrator who is not the owner, is answered 200,
\* sets the status to cancelled and appends exactly one history entry with
\* status cancelled.
C13_CancelCapability ==
    [][(/\ HandlerStep
        /\ last'.op = "cancelOrder"
        /\ last'.id <= Len(orders)
        /\ orders[last'.id].status \notin Terminal
        /\ last'.user = orders[last'.id].student \/ Role(last'.user) = "admin") =>
         LET id == last'.id
             h == orders[id].statusHistory
             h2 == orders'[id].statusHistory
         IN  /\ last'.code = 200
             /\ orders'[id].status = "cancelled"
             /\ Len(h2) = Len(h) + 1
             /\ SubSeq(h2, 1, Len(h)) = h
             /\ h2[Len(h2)].status = "cancelled"]_vars

\* The transition table: a non-terminal status to cancelled, a move between
\* pending, in_progress and review, or review to completed.
Permitted(from, to) ==
    /\ from \notin Terminal
    /\ \/ to = "cancelled"
       \/ to \in {"pending", "in_progress", "review"} /\ to # from
       \/ from = "review" /\ to = "completed"

\* C16: every two consecutive statuses in the history of an order are a
\* permitted transition.
C16_TransitionTable ==
    \A id \in 1..Len(orders) :
        LET h == orders[id].statusHistory
        IN  \A k \in 1..(Len(h) - 1) : Permitted(h[k].status, h[k + 1].status)

\* C17: an order whose rating or reviewedAt is set has the status completed.
C17_RatingOnlyOnCompleted ==
    \A id \in 1..Len(orders) :
        (orders[id].rating # Absent \/ orders[id].reviewedAt # Absent)
            => orders[id].status = "completed"

(***************************************************************************)
(* Claims about requests served at the same time, under SpecConc and       *)
(* SpecRace.                                                               *)
(***************************************************************************)
\* The order left by serving q1 and then q2, one after the other, on base.
Serial(base, q1, q2, now) ==
    OutcomeOf(q2, OutcomeOf(q1, base, now).doc, now).doc

\* C11: when two requests on the same order are both answered, the persisted
\* order is what serving them one after the other, in one of the two orders,
\* leaves; and the last history entry of every order has the order's status.
C11_ConcurrentTransitions ==
    /\ (/\ inflight["r1"].pc = "done"
        /\ inflight["r2"].pc = "done"
        /\ inflight["r1"].id = inflight["r2"].id)
       => LET a == inflight["r1"]
              b == inflight["r2"]
          IN  orders[a.id] \in {Serial(a.base, a.q, b.q, clock),
                                Serial(a.base, b.q, a.q, clock)}
    /\ \A id \in 1..Len(orders) :
          LET h == orders[id].statusHistory
          IN  Len(h) >= 1 /\ h[Len(h)].status = orders[id].status

\* C12: no two persisted orders have the same orderNumber, and the orderNumber
\* of a persisted order never changes.
C12_OrderNumberUnique ==
    [][/\ \A i, j \in 1..Len(orders') :
            orders'[i].orderNumber = orders'[j].orderNumber => i = j
       /\ \A id \in 1..Len(orders) :
            orders'[id].orderNumber = orders[id].orderNumber]_vars

\* Two creation requests began before either had inserted, one of them met
\* the number the other had taken, and both orders are persisted.
C12_Witness ==
    /\ \A r \in Requests : inflight[r].pc = "created" /\ inflight[r].started = 0
    /\ \E r \in Requests : inflight[r].attempts >= 1
    /\ Len(orders) = 2
    /\ orders[1].orderNumber # orders[2].orderNumber

(***************************************************************************)
(* Claims about the fields of an order, under SpecFields and SpecFixed.    *)
(***************************************************************************)
\* The fields of an order only an administrator may set.
AdminFields(body) == body.adminNotes # Undefined \/ body.progress # Absent

\* C14: an update by the owner, who is no administrator, whose body carries
\* adminNotes or progress is answered 403 and leaves every order as it was.
C14_OwnerFieldRestriction ==
    [][\A id \in 1..Len(orders), body \in FieldBodies :
         (/\ req.pc = "idle"
          /\ orders[id].student = "s1"
          /\ AdminFields(body)
          /\ updateOrder(id, "s1", body))
         => (last'.code = 403 /\ orders' = orders)]_vars

C19_PriceFixed ==
    [][\A id \in 1..Len(orders) :
         /\ orders'[id].totalPrice = orders[id].totalPrice
         /\ orders'[id].basePrice = orders[id].basePrice
         /\ orders'[id].student = orders[id].student]_vars

\* An order priced 90.00 under the seeded catalog, completed, reviewed and
\* annotated, with the catalog changed since (essay rule deleted).
C19_Witness ==
    /\ Len(orders) >= 1
    /\ orders[1].totalPrice = 9000
    /\ orders[1].status = "completed"
    /\ orders[1].reviewedAt # Absent
    /\ orders[1].adminNotes = "call back"
    /\ rules = Deleted(DefaultRules, RuleIndex(DefaultRules, "essay_task"))

(***************************************************************************)
(* C2.  Price and urgency of a created order.                              *)
(***************************************************************************)
\* The attributes of a persisted order the Pricing Engine reads.
PricingAttributes(o) ==
    [educationLevel |-> o.educationLevel, taskType |-> o.taskType,
     pageCount |-> <<o.pageCount>>, complexityLevel |-> o.complexityLevel,
     citationStyle |-> o.citationStyle, urgency |-> o.urgency]

\* C2: the totalPrice of every order createOrder persists is the price of the
\* order's attributes with its stored, deadline-derived urgency, under the
\* rules in force during the request.
C2_PriceMatchesStoredUrgency ==
    [][Len(orders') = Len(orders) + 1 =>
         LET o == orders'[Len(orders')]
         IN  o.totalPrice = calculatePrice(rules, PricingAttributes(o))]_vars

\* C18: every order createOrder persists has the status pending, a history of
\* exactly one entry, with status pending, progress 0 and no rating.
C18_InitialState ==
    [][Len(orders') = Len(orders) + 1 =>
         LET o == orders'[Len(orders')]
         IN  /\ o.status = "pending"
             /\ Len(o.statusHistory) = 1
             /\ o.statusHistory[1].status = "pending"
             /\ o.progress = 0
             /\ o.rating = Absent]_vars

\* C20: the response of a createOrder that gives up after 3 duplicate order
\* numbers differs, in status code or error, from the response to a request
\* that fails validation (400) and from the response to any other failure of
\* the insert.
C20_ExhaustionDistinct ==
    [][(/\ req.pc = "insert"
        /\ req.attempts + 1 = MaxAttempts
        /\ ValidNewOrder(NewOrder(req.orderData))
        /\ \E n \in OrderNumbers(orders) : createOrderInsert(n, FALSE))
       => /\ last'.code # 400
          /\ <<last'.code, last'.error>> # <<500, CaughtError>>]_vars

(***************************************************************************)
(* C4.  The order number retry policy.                                     *)
(***************************************************************************)
\* C4: one turn of the loop persists exactly one order when the number drawn
\* is unique; a duplicate number leads to another turn only while fewer than 3
\* attempts were made, and the third duplicate ends the request with a failure
\* and nothing persisted; any other failure ends the request at once with
\* nothing persisted; a further turn follows a duplicate number only.
C4_RetryPolicy ==
    [][\A n \in RandomNums, fault \in BOOLEAN :
         createOrderInsert(n, fault) =>
           LET duplicate == n \in OrderNumbers(orders)
               other == fault \/ req.orderData.orderNumber = Undefined
               tries == req.attempts + 1
           IN  /\ tries <= 3
               /\ other =>
                     /\ orders' = orders
                     /\ req'.pc = "idle"
                     /\ last'.code = 500
               /\ (~other /\ ~duplicate) =>
                     /\ Len(orders') = Len(orders) + 1
                     /\ SubSeq(orders', 1, Len(orders)) = orders
                     /\ orders'[Len(orders')].orderNumber = n
                     /\ req'.pc = "idle"
                     /\ last'.code = 201
               /\ (~other /\ duplicate /\ tries < 3) =>
                     /\ orders' = orders
                     /\ req'.pc = "insert"
                     /\ req'.attempts = tries
               /\ (~other /\ duplicate /\ tries = 3) =>
                     /\ orders' = orders
                     /\ req'.pc = "idle"
                     /\ last'.code = 500
               /\ req'.pc = "insert" => (duplicate /\ ~other)]_vars

\* Two attempts of one request met a duplicate number; the third is due.
C4_Witness ==
    /\ req.pc = "insert"
    /\ req.attempts = 2
    /\ Len(orders) >= 1

ClaimedBasePricePerPage(rs) ==
    LET hits == {i \in 1..Len(rs) : rs[i].name = "base_price_per_page" /\ rs[i].isActive}
    IN  IF hits = {} THEN DefaultBasePricePerPage
        ELSE rs[CHOOSE i \in hits : TRUE].basePrice

\* C21: the price returned is computed at the basePrice of the active rule
\* named base_price_per_page, for every basePrice >= 0, and at the default 15
\* exactly when there is no such active rule; a missing pageCount is 1 page.
C21_BaseRateSelection ==
    (last.op = "calculatePrice" /\ OneActiveRulePerPair(rules))
        => last.totalPrice = RatedPrice(ClaimedBasePricePerPage(rules), rules, last.body)

(***************************************************************************)
(* C22.  Rule priority.                                                    *)
(***************************************************************************)
\* The catalog without the active rules that another active rule of the same
\* (category, appliesTo) pair outranks by priority.
PreferredRules(rs) ==
    LET Outranked(r) ==
            /\ r.isActive
            /\ \E j \in 1..Len(rs) : /\ rs[j].isActive
                                    /\ rs[j].category = r.category
                                    /\ rs[j].appliesTo = r.appliesTo
                                    /\ rs[j].priority > r.priority
        Kept(r) == ~Outranked(r)
    IN  SelectSeq(rs, Kept)

\* C22: with several active rules for one (category, appliesTo) pair, the
\* multiplier applied for the category is that of the rule with the highest
\* priority among them (stated where the highest priority is held by one rule).
C22_RulePriority ==
    (last.op = "calculatePrice" /\ OneActiveRulePerPair(PreferredRules(rules)))
        => last.totalPrice =
               RatedPrice(BasePricePerPage(rules), PreferredRules(rules), last.body)

C24_SeedReplaces ==
    [][(last'.op = "seedPricingRules" /\ last'.code = 200) =>
          /\ rules' = DefaultRules
          /\ last.op = "seedPricingRules" => rules' = rules]_vars

\* The default catalog, left by a seed.
C24_Witness ==
    /\ last.op = "seedPricingRules"
    /\ last.code = 200
    /\ rules = DefaultRules
    /\ Len(rules) = 23
    /\ "base_price_per_page" \notin RuleNames(rules)

(***************************************************************************)
(* C25.  History timestamps are ordered.                                   *)
(***************************************************************************)
\* C25: in every reachable state, also with requests on one order served at
\* the same time, the timestamps of every order's statusHistory are
\* non-decreasing from the first entry to the last.
C25_TimestampsOrdered ==
    \A i \in 1..Len(orders) :
        LET h == orders[i].statusHistory
        IN  \A k, l \in 1..Len(h) : k <= l => h[k].timestamp <= h[l].timestamp

(***************************************************************************)
(* C26.  No partial order mutation.                                        *)
(***************************************************************************)
\* The fields of b are those of a, but for the fields named.
SameBut(a, b, fields) == \A f \in (DOMAIN a) \ fields : a[f] = b[f]

\* h2 is h with one more entry, of the status given.
Appended(h, h2, status) ==
    /\ Len(h2) = Len(h) + 1
    /\ SubSeq(h2, 1, Len(h)) = h
    /\ h2[Len(h2)].status = status

\* The whole of what the request asks for is in the persisted order new, and
\* nothing else has changed since old.
WholeUpdate(old, new, user, body) ==
    LET asked == IF Role(user) = "admin"
                 THEN Truthy(body.status) /\ body.status # old.status
                 ELSE body.status = "cancelled"
        instructed == Role(user) # "admin" /\ Truthy(body.additionalInstructions)
    IN  /\ IF asked
           THEN new.status = body.status
                /\ Appended(old.statusHistory, new.statusHistory, body.status)
           ELSE new.status = old.status /\ new.statusHistory = old.statusHistory
        /\ IF instructed
           THEN new.additionalInstructions = body.additionalInstructions
           ELSE new.additionalInstructions = old.additionalInstructions
        /\ SameBut(old, new, {"status", "statusHistory", "additionalInstructions"})

\* C26: an updateOrder, cancelOrder or reviewOrder request that is answered
\* 200 has persisted all of its field changes together with the matching
\* history entry, and one that is answered otherwise (refused, or its save
\* turned down by the validators) has left every order as it was.
C26_NoPartialMutation ==
    [][(HandlerStep /\ last'.id \in 1..Len(orders)) =>
          LET id == last'.id
              user == last'.user
          IN  /\ last'.op = "updateOrder" =>
                    \A body \in UpdateBodies :
                        (body.status = last'.status /\ updateOrder(id, user, body)) =>
                            IF last'.code = 200
                            THEN WholeUpdate(orders[id], orders'[id], user, body)
                            ELSE orders' = orders
              /\ (last'.op = "cancelOrder" /\ cancelOrder(id, user, Undefined)) =>
                    IF last'.code = 200
                    THEN /\ orders'[id].status = "cancelled"
                         /\ Appended(orders[id].statusHistory,
                                     orders'[id].statusHistory, "cancelled")
                         /\ SameBut(orders[id], orders'[id], {"status", "statusHistory"})
                    ELSE orders' = orders
              /\ last'.op = "reviewOrder" =>
                    \A rv \in ReviewBodies :
                        reviewOrder(id, user, rv[1], rv[2]) =>
                            IF last'.code = 200
                            THEN /\ orders'[id].rating = rv[1]
                                 /\ orders'[id].review =
                                        (IF rv[2] = Undefined THEN "" ELSE rv[2])
                                 /\ orders'[id].reviewedAt = <<clock>>
                                 /\ SameBut(orders[id], orders'[id],
                                            {"rating", "review", "reviewedAt"})
                            ELSE orders' = orders]_vars

\* The owner asked to cancel with instructions the validators turn down: the
\* save failed and the order is neither cancelled nor instructed.
C26_Witness ==
    /\ last.op = "updateOrder"
    /\ last.status = "cancelled"
    /\ last.code = 500
    /\ last.id <= Len(orders)
    /\ orders[last.id].status \notin Terminal
    /\ orders[last.id].additionalInstructions # TooLong
    /\ Len(orders[last.id].statusHistory) >= 2

(***************************************************************************)
(* C27.  Progress is clamped.                                              *)
(***************************************************************************)
ClaimedProgress(p) == IF p < 0 THEN 0 ELSE IF p > 100 THEN 100 ELSE p

\* C27: the progress of every persisted order is within [0, 100], and an
\* administrator's update that carries a number p as progress is saved and
\* leaves min(100, max(0, p)) as the order's progress.
C27_ProgressClamped ==
    [][/\ \A i \in 1..Len(orders') :
            orders'[i].progress >= 0 /\ orders'[i].progress <= 100
       /\ \A id \in OrderIds, body \in ProgressBodies :
            (req.pc = "idle" /\ id <= Len(orders) /\ updateOrder(id, "adm", body))
                => /\ last'.code = 200
                   /\ orders'[id].progress = ClaimedProgress(body.progress[1])]_vars

\* An administrator's update with a negative progress has completed an order
\* and left its progress at 0.
C27_Witness ==
    /\ last.op = "updateOrder"
    /\ last.user = "adm"
    /\ last.code = 200
    /\ last.id <= Len(orders)
    /\ orders[last.id].progress = 0
    /\ orders[last.id].status = "completed"

(***************************************************************************)
(* C28.  Concurrent reviews.                                               *)
(***************************************************************************)
\* C28: when two reviews by the owner of the same completed order without a
\* rating have both been answered, at most one of them was answered 200, and
\* the rating, review and reviewedAt persisted are those of that request.
C28_ConcurrentReviews ==
    LET a == inflight["r1"]
        b == inflight["r2"]
    IN  (/\ a.pc = "done" /\ b.pc = "done"
         /\ a.id = b.id
         /\ a.q.op = "reviewOrder" /\ b.q.op = "reviewOrder"
         /\ a.base.status = "completed" /\ a.base.rating = Absent
         /\ a.base.student = a.q.user /\ a.base.student = b.q.user)
        => /\ ~(a.code = 200 /\ b.code = 200)
           /\ \A w \in {a, b} :
                 w.code = 200 => /\ orders[w.id].rating = w.q.body.rating
                                 /\ orders[w.id].review = w.q.body.review
                                 /\ orders[w.id].reviewedAt # Absent

(***************************************************************************)
(* C29.  Price snapshot consistency.                                       *)
(***************************************************************************)
\* The catalog the administrator's operation leaves: the default catalog when
\* a seed is under way, the store as it is otherwise.
CatalogAfter(rs, seeding) == IF seeding THEN DefaultRules ELSE rs

\* C29: the price a request returns while one administrative operation (an
\* update, a deletion or a seed) is served beside it is the price of its
\* attributes under the catalog before the operation or under the catalog
\* after it, never under a mix of the two or under the emptied store of a
\* seed.
C29_PriceSnapshot ==
    [][\A r \in Requests :
          (inflight[r].pc = "pricing" /\ inflight'[r].pc = "done") =>
              LET p == inflight'[r]
                  after == CatalogAfter(rules', inflight'[Other(r)].pc = "seeding")
              IN  p.totalPrice \in {calculatePrice(p.before, p.body),
                                    calculatePrice(after, p.body)}]_vars

(***************************************************************************)
(* C30.  Token round trip.                                                 *)
(***************************************************************************)
\* C30: a token of generateToken, presented before it expires by a client
\* whose user is stored and active, passes protect with req.user set to that
\* user; in particular it is not turned down as revoked.
C30_TokenRoundTrip ==
    [][\A r \in Requests :
          (/\ inflight[r].pc = "token"
           /\ authenticate(r, inflight[r].token)
           /\ clock < inflight[r].token.exp
           /\ inflight[r].token.payload.id <= Len(users)
           /\ users[inflight[r].token.payload.id].isActive)
          => /\ last'.code = 200
             /\ last'.id = inflight[r].token.payload.id
             /\ last'.error # Revoked]_vars

====
